---- MODULE Spec2Model ----
(***************************************************************************)
(* State-machine model of rendy's memory registry (memory/src/heaps.rs),   *)
(* the fence functions (core/src/command/fence.rs) and the deferred        *)
(* reclamation paths of Device and Factory (core/src/device.rs,            *)
(* core/src/factory.rs).                                                   *)
(*                                                                         *)
(* u64 arithmetic is scaled down to the modulus u64_MODULUS.  An overflow  *)
(* panics when the build has overflow checks (debug profile) and wraps     *)
(* otherwise (release profile); the profile is fixed at start.             *)
(***************************************************************************)
EXTENDS Integers, Sequences, FiniteSets, TLC

VARIABLES
    config,           \* the Config handed to Heaps::new
    types,            \* Heaps::types: per memory type its heap_index, properties, arena?, dynamic?
    heaps,            \* Heaps::heaps: per heap [size, used]
    arena,            \* per type: the arena sub-allocator's ring of chunks (lines)
    dynamic,          \* per type: the dynamic sub-allocator's chunks
    blocks,           \* MemoryBlocks returned by allocate and not yet freed (owned by the caller)
    mapped,           \* the blocks among them that have been mapped: [block, active, unmapped]
    overflow_checks,  \* TRUE: arithmetic overflow panics; FALSE: it wraps
    panicked,         \* the thread has panicked
    heap_last,        \* the last registry call: its arguments, its result and the used counters before it
    owner,            \* which struct owns device, queues and graveyard: "Device" or "Factory"
    alive,            \* the owner has not been dropped
    debug_assertions, \* the build checks debug_assert!
    tracker,          \* Device::tracker is Some
    lease,            \* "taken" from a take_tracker that gave the tracker until a return_tracker
    held,             \* DeviceTracker values in callers' hands
    epoch,            \* per queue: the epoch of its last submission
    fences,           \* per raw fence: the fence value the caller holds [raw, state, queue, epoch]
    signalled,        \* per raw fence: the device has signalled it
    device_lost,      \* the device is lost
    objects,          \* per object: [state, epochs, destroys]
    batches,          \* the batches swept so far: [objects, stamped, holders]
    core_panicked,    \* a core call has panicked
    instance,         \* the Vulkan instance: [holders: Instance handles alive, destroys: destroy_instance calls]
    core_last         \* the last core call: its arguments and its result

heap_vars == <<config, types, heaps, arena, dynamic, blocks, mapped, overflow_checks,
               panicked, heap_last>>

core_vars == <<instance, owner, debug_assertions, lease, alive, tracker, held, epoch, fences, signalled, device_lost,
               objects, batches, core_panicked, core_last>>

vars == <<config, types, heaps, arena, dynamic, blocks, mapped, overflow_checks,
          panicked, heap_last,
          instance, owner, debug_assertions, lease, alive, tracker, held, epoch, fences, signalled,
          device_lost, objects, batches, core_panicked, core_last>>

-----------------------------------------------------------------------------
(* Bounds of the exploration *)

MaxBlocks == 2       \* blocks outstanding at the same time
MaxLines == 2        \* arena chunks alive at the same time, per type
u64_MODULUS == 64    \* stands for 2^64
NumQueues == 2       \* queues of the device, all families together
NumFences == 2       \* fences created
NumObjects == 1      \* objects that can be released
MaxEpoch == 2        \* submissions per queue
MaxBatches == 2       \* sweeps
MaxHeld == 2         \* DeviceTracker values in callers' hands
MaxHolders == 3      \* Instance handles alive at the same time

u64_MAX == u64_MODULUS - 1

TypeIdx == {0, 1}
HeapIdx == {0, 1}
HeapSizes == [h \in HeapIdx |-> IF h = 0 THEN 8 ELSE 3]

\* The (size, align) requests explored: below, at and above the sub-allocators'
\* max_allocation, with and without padding, and the largest u64.
Requests == {<<1, 1>>, <<2, 1>>, <<2, 2>>, <<3, 1>>, <<u64_MAX, 1>>}
Masks == 0..3
UsageValue == {"Data", "Dynamic", "Upload", "Download"}

PropertyChoices == {{"DEVICE_LOCAL"}, {"HOST_VISIBLE"}, {"DEVICE_LOCAL", "HOST_VISIBLE"}}

\* Config: arena / dynamic are None (FALSE) or Some(config) (TRUE).  The
\* registries explored hand the same Config to every type and put the types
\* either all on heap 0 or type t on heap t.
ArenaConfig == [chunk_size |-> 4, max_allocation |-> 2]
DynamicConfig == [chunk_size |-> 4, max_allocation |-> 2]
ConfigChoices == [arena : BOOLEAN, dynamic : BOOLEAN]
HeapMaps == {[t \in TypeIdx |-> 0], [t \in TypeIdx |-> t]}

\* What the device answers to allocate_memory(type, size): it may always
\* fail, and it has no memory for a request larger than all its heaps together.
\* It does not hold a single heap to its reported size.
RECURSIVE SumSizes(_)
SumSizes(H) == IF H = {} THEN 0
               ELSE LET h == CHOOSE x \in H : TRUE IN HeapSizes[h] + SumSizes(H \ {h})

AllocateMemoryResults(size) ==
    IF size > SumSizes(HeapIdx) THEN {"OutOfHostMemory", "OutOfDeviceMemory"}
    ELSE {"Success", "OutOfHostMemory", "OutOfDeviceMemory"}

QueueIds == 0..(NumQueues - 1)
FenceIds == 1..NumFences
ObjectIds == 1..NumObjects

\* enum WaitFor
WaitFor == {"Any", "All"}

UnarmedFence(raw) == [raw |-> raw, state |-> "Unarmed", queue |-> -1, epoch |-> 0]

NoCoreCall ==
    [op |-> "none", mode |-> "All", input |-> <<>>, signalled |-> {}, vk |-> "none",
     kind |-> "none", out |-> <<>>, queries |-> 0,
     fences_before |-> [f \in FenceIds |-> UnarmedFence(f)],
     slot_before |-> TRUE, lease_before |-> "free", held_before |-> 0,
     terminal_before |-> {}]

\* Device::create clones the Instance the caller enumerated the physical
\* device from (device.rs 434); a Factory owns the raw instance itself.
instance_at_create(who) ==
    [holders |-> IF who = "Device" THEN 2 ELSE 1, destroys |-> 0]

\* The core while the memory registry is explored.
CoreParked ==
    /\ owner = "Device"
    /\ instance = instance_at_create("Device")
    /\ debug_assertions = TRUE
    /\ lease = "free"
    /\ alive = TRUE
    /\ tracker = TRUE
    /\ held = 0
    /\ epoch = [q \in QueueIds |-> 0]
    /\ fences = [f \in FenceIds |-> UnarmedFence(f)]
    /\ signalled = [f \in FenceIds |-> FALSE]
    /\ device_lost = FALSE
    /\ objects = [o \in ObjectIds |->
                    [state |-> "live", epochs |-> [q \in QueueIds |-> 0], destroys |-> 0]]
    /\ batches = <<>>
    /\ core_panicked = FALSE
    /\ core_last = NoCoreCall

-----------------------------------------------------------------------------
(* u64 arithmetic *)

add_overflows(a, b) == a + b >= u64_MODULUS
sub_overflows(a, b) == a < b
wrapping_add(a, b) == (a + b) % u64_MODULUS
wrapping_sub(a, b) == (a - b + u64_MODULUS) % u64_MODULUS

aligned(value, align) == ((value + align - 1) \div align) * align

-----------------------------------------------------------------------------
(* Usage::memory_fitness: None (NoFitness) or Some(score) *)

NoFitness == -1

memory_fitness(usage, properties) ==
    CASE usage = "Data" ->
            IF "DEVICE_LOCAL" \notin properties THEN NoFitness
            ELSE IF "HOST_VISIBLE" \notin properties THEN 1 ELSE 0
      [] usage = "Dynamic" ->
            IF "HOST_VISIBLE" \notin properties THEN NoFitness
            ELSE IF "DEVICE_LOCAL" \in properties THEN 1 ELSE 0
      [] OTHER ->  \* Upload, Download
            IF "HOST_VISIBLE" \notin properties THEN NoFitness
            ELSE IF "DEVICE_LOCAL" \notin properties THEN 1 ELSE 0

\* properties_required of the optional sub-allocators
ArenaAllocator_properties_required == {"HOST_VISIBLE"}
DynamicAllocator_properties_required == {}

\* Sub-allocators created from the Config alone.
MemoryType_new_unchecked(heap_index, properties, cfg) ==
    [heap_index |-> heap_index, properties |-> properties,
     arena |-> cfg.arena, dynamic |-> cfg.dynamic]

\* MemoryType::new
MemoryType_new(heap_index, properties, cfg) ==
    [heap_index |-> heap_index,
     properties |-> properties,
     arena      |-> IF ArenaAllocator_properties_required \subseteq properties
                    THEN cfg.arena ELSE FALSE,
     dynamic    |-> IF DynamicAllocator_properties_required \subseteq properties
                    THEN cfg.dynamic ELSE FALSE]

\* MemoryHeap::new
MemoryHeap_new(size) == [size |-> size, used |-> 0]

\* MemoryHeap::available, as the two builds compute it
available_panics(heap) == overflow_checks /\ sub_overflows(heap.size, heap.used)
available(heap) == wrapping_sub(heap.size, heap.used)

-----------------------------------------------------------------------------
(* The three sub-allocators.  Each alloc answers                            *)
(*   [status, flavor, chunk, offset, allocated, arena, dynamic]             *)
(* where allocated is the byte count reserved from the device and arena /   *)
(* dynamic are the sub-allocator states after the call.                     *)

ChunkSlots == 1..MaxBlocks
NoChunks == [c \in ChunkSlots |-> {}]

alloc_failed(status, lines, chunks) ==
    [status |-> status, flavor |-> "None", chunk |-> 0, offset |-> 0,
     allocated |-> 0, arena |-> lines, dynamic |-> chunks]

\* Dedicated: one device memory object per request, exactly `size` bytes.
DedicatedAllocator_alloc(lines, chunks, size, dev) ==
    IF dev # "Success" THEN alloc_failed(dev, lines, chunks)
    ELSE [status |-> "Ok", flavor |-> "Dedicated", chunk |-> 0, offset |-> 0,
          allocated |-> size, arena |-> lines, dynamic |-> chunks]

DedicatedAllocator_free(block) == block.size

\* Arena: bump allocation in the newest chunk of a ring of fixed-size chunks;
\* a new chunk is reserved from the device when the request does not fit.
\* A chunk is [used: the bump cursor, live: allocations not yet freed].
ArenaAllocator_alloc(lines, chunks, size, align, dev) ==
    LET n == Len(lines)
        start == IF n = 0 THEN 0 ELSE aligned(lines[n].used, align)
    IN  IF n > 0 /\ start + size <= ArenaConfig.chunk_size
        THEN [status |-> "Ok", flavor |-> "Arena", chunk |-> n, offset |-> start,
              allocated |-> 0,
              arena |-> [lines EXCEPT ![n] = [used |-> start + size, live |-> @.live + 1]],
              dynamic |-> chunks]
        ELSE IF n >= MaxLines THEN alloc_failed("Capped", lines, chunks)
        ELSE IF dev # "Success" THEN alloc_failed(dev, lines, chunks)
        ELSE [status |-> "Ok", flavor |-> "Arena", chunk |-> n + 1, offset |-> 0,
              allocated |-> ArenaConfig.chunk_size,
              arena |-> Append(lines, [used |-> size, live |-> 1]),
              dynamic |-> chunks]

\* The number of chunks at the front of the ring whose allocations are all freed.
RECURSIVE ArenaAllocator_cleanup(_)
ArenaAllocator_cleanup(lines) ==
    IF lines = <<>> \/ lines[1].live > 0 THEN 0
    ELSE 1 + ArenaAllocator_cleanup(Tail(lines))

\* Arena free: [freed bytes, chunks popped from the front, lines after]
ArenaAllocator_free(lines, block) ==
    LET marked == [lines EXCEPT ![block.chunk].live = @ - 1]
        popped == ArenaAllocator_cleanup(marked)
    IN  [freed  |-> popped * ArenaConfig.chunk_size,
         popped |-> popped,
         arena  |-> SubSeq(marked, popped + 1, Len(marked))]

\* Dynamic: first fit among the free cells of the chunks alive; a chunk is a
\* set of occupied cells (adjacent free cells are one free region), {} is a
\* slot without chunk.
Cells(offset, size) == offset..(offset + size - 1)

DynamicFits(chunks, size, align) ==
    {p \in ChunkSlots \X (0..(DynamicConfig.chunk_size - 1)) :
        /\ chunks[p[1]] # {}
        /\ p[2] % align = 0
        /\ p[2] + size <= DynamicConfig.chunk_size
        /\ Cells(p[2], size) \cap chunks[p[1]] = {}}

DynamicAllocator_alloc(lines, chunks, size, align, dev) ==
    LET fits  == DynamicFits(chunks, size, align)
        empty == {c \in ChunkSlots : chunks[c] = {}}
    IN  IF fits # {}
        THEN LET p == CHOOSE q \in fits : \A r \in fits :
                        q[1] < r[1] \/ (q[1] = r[1] /\ q[2] <= r[2])
             IN  [status |-> "Ok", flavor |-> "Dynamic", chunk |-> p[1], offset |-> p[2],
                  allocated |-> 0, arena |-> lines,
                  dynamic |-> [chunks EXCEPT ![p[1]] = @ \cup Cells(p[2], size)]]
        ELSE IF empty = {} THEN alloc_failed("Capped", lines, chunks)
        ELSE IF dev # "Success" THEN alloc_failed(dev, lines, chunks)
        ELSE LET c == CHOOSE d \in empty : \A e \in empty : d <= e
             IN  [status |-> "Ok", flavor |-> "Dynamic", chunk |-> c, offset |-> 0,
                  allocated |-> DynamicConfig.chunk_size, arena |-> lines,
                  dynamic |-> [chunks EXCEPT ![c] = Cells(0, size)]]

\* Dynamic free: the block's cells return to the free list; a chunk left
\* without any block is released to the device.
DynamicAllocator_free(chunks, block) ==
    LET rest == chunks[block.chunk] \ Cells(block.offset, block.size)
    IN  [freed   |-> IF rest = {} THEN DynamicConfig.chunk_size ELSE 0,
         dynamic |-> [chunks EXCEPT ![block.chunk] = rest]]

-----------------------------------------------------------------------------
(* MemoryType::alloc: which sub-allocator serves the request *)

\* A dispatch that keeps requests of exactly max_allocation out of the sub-allocators.
MemoryType_dispatch_strict(mt, usage, size) ==
    IF usage \in {"Upload", "Download"} /\ mt.arena /\ size < ArenaConfig.max_allocation
        THEN "Arena"
    ELSE IF usage \in {"Dynamic", "Data"} /\ mt.dynamic /\ size < DynamicConfig.max_allocation
        THEN "Dynamic"
    ELSE "Dedicated"

\* A dispatch that does not look at the size.
MemoryType_dispatch_unbounded(mt, usage, size) ==
    IF usage \in {"Upload", "Download"} /\ mt.arena THEN "Arena"
    ELSE IF usage \in {"Dynamic", "Data"} /\ mt.dynamic THEN "Dynamic"
    ELSE "Dedicated"

\* A dispatch that lets a request the arena cannot serve fall through to the
\* dynamic allocator, and the other way round.
MemoryType_dispatch_crossed(mt, usage, size) ==
    IF usage \in {"Upload", "Download"} /\ mt.arena /\ size <= ArenaConfig.max_allocation
        THEN "Arena"
    ELSE IF usage \in {"Dynamic", "Data"} /\ mt.dynamic /\ size <= DynamicConfig.max_allocation
        THEN "Dynamic"
    ELSE IF mt.dynamic /\ size <= DynamicConfig.max_allocation THEN "Dynamic"
    ELSE IF mt.arena /\ size <= ArenaConfig.max_allocation THEN "Arena"
    ELSE "Dedicated"

\* A dispatch that does not look at which sub-allocators the type has.
MemoryType_dispatch_unguarded(mt, usage, size) ==
    IF usage \in {"Upload", "Download"} /\ size <= ArenaConfig.max_allocation
        THEN "Arena"
    ELSE IF usage \in {"Dynamic", "Data"} /\ size <= DynamicConfig.max_allocation
        THEN "Dynamic"
    ELSE "Dedicated"

MemoryType_dispatch(mt, usage, size) ==
    IF usage \in {"Upload", "Download"} /\ mt.arena /\ size <= ArenaConfig.max_allocation
        THEN "Arena"
    ELSE IF usage = "Dynamic" /\ mt.dynamic /\ size <= DynamicConfig.max_allocation
        THEN "Dynamic"
    ELSE IF usage = "Data" /\ mt.dynamic /\ size <= DynamicConfig.max_allocation
        THEN "Dynamic"
    ELSE "Dedicated"

MemoryType_alloc(t, usage, size, align, dev) ==
    LET flavor == MemoryType_dispatch(types[t], usage, size)
    IN  CASE flavor = "Arena"   -> ArenaAllocator_alloc(arena[t], dynamic[t], size, align, dev)
          [] flavor = "Dynamic" -> DynamicAllocator_alloc(arena[t], dynamic[t], size, align, dev)
          [] OTHER              -> DedicatedAllocator_alloc(arena[t], dynamic[t], size, dev)

\* A free that hands every block to the dedicated allocator.
MemoryType_free_dedicated(t, block) ==
    [freed |-> DedicatedAllocator_free(block), popped |-> 0,
     arena |-> arena[t], dynamic |-> dynamic[t]]

\* Lines 361-362: self.arena.as_mut().unwrap() / self.dynamic.as_mut().unwrap()
MemoryType_free_unwrap_panics(t, block) ==
    \/ block.flavor = "Arena" /\ ~types[t].arena
    \/ block.flavor = "Dynamic" /\ ~types[t].dynamic

\* MemoryType::free: [freed, popped, arena, dynamic]
MemoryType_free(t, block) ==
    CASE block.flavor = "Arena" ->
            LET r == ArenaAllocator_free(arena[t], block)
            IN  [freed |-> r.freed, popped |-> r.popped, arena |-> r.arena, dynamic |-> dynamic[t]]
      [] block.flavor = "Dynamic" ->
            LET r == DynamicAllocator_free(dynamic[t], block)
            IN  [freed |-> r.freed, popped |-> 0, arena |-> arena[t], dynamic |-> r.dynamic]
      [] OTHER ->
            [freed |-> DedicatedAllocator_free(block), popped |-> 0,
             arena |-> arena[t], dynamic |-> dynamic[t]]

-----------------------------------------------------------------------------
(* Heaps::allocate *)

mask_bit(mask, index) == (mask \div (2 ^ index)) % 2 = 1

suitable_types_unmasked(mask, usage) ==
    {t \in TypeIdx : memory_fitness(usage, types[t].properties) # NoFitness}

\* Lines 86-95: the masked types with a defined fitness for the usage.
suitable_types(mask, usage) ==
    {t \in TypeIdx : /\ mask_bit(mask, t)
                     /\ memory_fitness(usage, types[t].properties) # NoFitness}

\* Line 103: the capacity filter, on wrapping u64 values.
heap_has_capacity(heap, size, align) == available(heap) > wrapping_add(size, align)

\* Line 104: Iterator::max_by_key answers the last of several maximal elements.
max_by_key(candidates, usage) ==
    LET fit(t) == memory_fitness(usage, types[t].properties)
        best == {t \in candidates : \A u \in candidates : fit(u) <= fit(t)}
    IN  CHOOSE t \in best : \A u \in best : u <= t

\* Lines 85-106: [result, memory_index]
Heaps_select(mask, usage, size, align) ==
    LET suitable == suitable_types(mask, usage)
        with_capacity ==
            {t \in suitable : heap_has_capacity(heaps[types[t].heap_index], size, align)}
    IN  IF suitable = {}
            THEN [result |-> "NoSuitableMemory", memory_index |-> -1]
        ELSE IF \/ \E t \in suitable : available_panics(heaps[types[t].heap_index])
                \/ overflow_checks /\ add_overflows(size, align)
            THEN [result |-> "panic", memory_index |-> -1]
        ELSE IF with_capacity = {}
            THEN [result |-> "HeapsExhausted", memory_index |-> -1]
        ELSE [result |-> "Selected", memory_index |-> max_by_key(with_capacity, usage)]

\* Line 133: the second capacity check, in allocate_from.
allocate_from_exhausted(heap, size) == available(heap) < size

used_after_allocate_dropped(used, allocated) == used

propagate_as_exhausted(status) == "HeapsExhausted"

\* Line 137: memory_type.alloc(..)? hands the sub-allocator's error to the caller.
propagate(status) == status

\* Line 138: memory_heap.used += allocated
used_after_allocate(used, allocated) == wrapping_add(used, allocated)

used_after_free_forgotten(used, freed) == used

used_after_free_doubled(used, freed) == wrapping_sub(used, 2 * freed)

used_after_free_halved(used, freed) == wrapping_sub(used, freed \div 2)

\* Line 159: memory_heap.used -= freed
used_after_free(used, freed) == wrapping_sub(used, freed)

MemoryType_heap_index_first(t) == 0

\* Lines 131 and 157: self.heaps[memory_type.heap_index]
MemoryType_heap_index(t) == types[t].heap_index

\* A dedicated block is its own device memory object: its chunk field is the
\* lowest handle no dedicated block outstanding has.
fresh_memory == CHOOSE i \in 1..MaxBlocks :
                    /\ \A b \in blocks : b.flavor = "Dedicated" => b.chunk # i
                    /\ \A j \in 1..(i - 1) :
                            \E b \in blocks : b.flavor = "Dedicated" /\ b.chunk = j

NoBlock == [memory_index |-> -1, flavor |-> "None", chunk |-> 0, offset |-> 0, size |-> 0]

NoCall ==
    [op |-> "none", mask |-> 0, usage |-> "Data", size |-> 0, align |-> 0,
     result |-> "none", memory_index |-> -1, flavor |-> "None", block |-> NoBlock,
     bytes |-> 0, used_before |-> [h \in HeapIdx |-> 0],
     round_trip |-> FALSE, reserved |-> 0, lines_before |-> 0,
     used_prior |-> [h \in HeapIdx |-> 0], outstanding |-> {},
     range |-> <<0, 0>>, active_before |-> 0, unmapped_before |-> FALSE,
     device |-> "none"]

used_now == [h \in HeapIdx |-> heaps[h].used]

\* Heaps::allocate with Heaps::allocate_from, lines 71-144.
Heaps_allocate(mask, usage, size, align) ==
    /\ ~panicked
    /\ heap_last.op = "none"
    /\ Cardinality(blocks) < MaxBlocks
    /\ LET sel  == Heaps_select(mask, usage, size, align)
           t    == sel.memory_index
           h    == MemoryType_heap_index(t)
           call == [NoCall EXCEPT !.op = "allocate", !.mask = mask, !.usage = usage,
                                  !.size = size, !.align = align,
                                  !.used_before = used_now, !.used_prior = used_now]
       IN  IF sel.result = "panic" THEN
               /\ panicked' = TRUE
               /\ heap_last' = [call EXCEPT !.result = "panic"]
               /\ UNCHANGED <<types, heaps, arena, dynamic, blocks, overflow_checks>>
           ELSE IF sel.result # "Selected" THEN
               /\ heap_last' = [call EXCEPT !.result = sel.result]
               /\ UNCHANGED <<types, heaps, arena, dynamic, blocks, overflow_checks, panicked>>
           ELSE IF allocate_from_exhausted(heaps[h], size) THEN
               /\ heap_last' = [call EXCEPT !.result = "HeapsExhausted", !.memory_index = t]
               /\ UNCHANGED <<types, heaps, arena, dynamic, blocks, overflow_checks, panicked>>
           ELSE \E dev \in AllocateMemoryResults(size) :
                LET r == MemoryType_alloc(t, usage, size, align, dev)
                    block == [memory_index |-> t, flavor |-> r.flavor,
                              chunk |-> IF r.flavor = "Dedicated" THEN fresh_memory ELSE r.chunk,
                              offset |-> r.offset, size |-> size]
                IN
               /\ r.status # "Capped"
               /\ IF r.status # "Ok" THEN
                      /\ heap_last' = [call EXCEPT !.result = propagate(r.status),
                                                   !.device = dev, !.memory_index = t,
                                                   !.flavor = MemoryType_dispatch(types[t], usage, size)]
                      /\ UNCHANGED <<types, heaps, arena, dynamic, blocks, overflow_checks, panicked>>
                  ELSE
                      /\ arena' = [arena EXCEPT ![t] = r.arena]
                      /\ dynamic' = [dynamic EXCEPT ![t] = r.dynamic]
                      /\ IF overflow_checks /\ add_overflows(heaps[h].used, r.allocated) THEN
                             \* line 138 panics; the block is dropped while unwinding
                             /\ panicked' = TRUE
                             /\ heap_last' = [call EXCEPT !.result = "panic", !.memory_index = t,
                                                          !.flavor = r.flavor]
                             /\ UNCHANGED <<heaps, blocks>>
                         ELSE
                             /\ heaps' = [heaps EXCEPT ![h].used = used_after_allocate(@, r.allocated)]
                             /\ blocks' = blocks \cup {block}
                             /\ heap_last' = [call EXCEPT !.result = "Ok", !.memory_index = t,
                                                          !.flavor = r.flavor,
                                                          !.block = block,
                                                          !.bytes = r.allocated]
                             /\ UNCHANGED panicked
                      /\ UNCHANGED <<types, overflow_checks>>
    /\ UNCHANGED <<config, mapped>>

\* Heaps::free, lines 149-160.
Heaps_free(block) ==
    /\ ~panicked
    /\ heap_last.op \in {"none", "allocate"}
    /\ block \in blocks
    /\ LET t == block.memory_index
           h == MemoryType_heap_index(t)
           r == MemoryType_free(t, block)
           round_trip == /\ heap_last.op = "allocate"
                         /\ heap_last.result = "Ok"
                         /\ heap_last.block = block
           call == [NoCall EXCEPT !.op = "free", !.memory_index = t,
                                  !.flavor = block.flavor, !.block = block,
                                  !.size = block.size, !.bytes = r.freed,
                                  !.round_trip = round_trip,
                                  !.reserved = IF round_trip THEN heap_last.bytes ELSE 0,
                                  !.lines_before = Len(arena[t]),
                                  !.used_prior = used_now,
                                  !.used_before = IF round_trip THEN heap_last.used_before
                                                  ELSE used_now]
       IN  IF MemoryType_free_unwrap_panics(t, block) THEN
               \* the unwrap panics; the block is dropped while unwinding
               /\ panicked' = TRUE
               /\ heap_last' = [call EXCEPT !.result = "panic", !.bytes = 0]
               /\ blocks' = blocks \ {block}
               /\ mapped' = {n \in mapped : n.block # block}
               /\ UNCHANGED <<config, types, heaps, arena, dynamic, overflow_checks>>
           ELSE
           /\ arena' = [arena EXCEPT ![t] = r.arena]
           /\ dynamic' = [dynamic EXCEPT ![t] = r.dynamic]
           \* the blocks of the chunks behind a popped one move to the front
           /\ blocks' = {IF b.memory_index = t /\ b.flavor = "Arena"
                            THEN [b EXCEPT !.chunk = @ - r.popped] ELSE b
                         : b \in blocks \ {block}}
           /\ mapped' = {IF m.block.memory_index = t /\ m.block.flavor = "Arena"
                            THEN [m EXCEPT !.block.chunk = @ - r.popped] ELSE m
                         : m \in {n \in mapped : n.block # block}}
           /\ IF overflow_checks /\ sub_overflows(heaps[h].used, r.freed) THEN
                  /\ panicked' = TRUE
                  /\ heap_last' = [call EXCEPT !.result = "panic"]
                  /\ UNCHANGED heaps
              ELSE
                  /\ heaps' = [heaps EXCEPT ![h].used = used_after_free(@, r.freed)]
                  /\ heap_last' = [call EXCEPT !.result = "Ok"]
                  /\ UNCHANGED panicked
           /\ UNCHANGED <<config, types, overflow_checks>>

\* The caller has looked at the result of the last call and goes on.
Heaps_caller_continue ==
    /\ heap_last.op \notin {"none", "dispose"}
    /\ heap_last' = NoCall
    /\ UNCHANGED <<config, types, heaps, arena, dynamic, blocks, mapped, overflow_checks,
                   panicked>>

\* An arena asked to dispose with allocations outstanding panics
\* (sub-allocator dispose is fatal if blocks remain).
ArenaAllocator_dispose_panics(lines) == lines # <<>>

\* MemoryType::dispose, lines 367-374: only the arena, if there is one.
MemoryType_dispose_panics(t) == types[t].arena /\ ArenaAllocator_dispose_panics(arena[t])

\* Heaps::dispose, lines 165-172: consumes the registry.
Heaps_dispose ==
    /\ ~panicked
    /\ heap_last.op = "none"
    /\ LET fatal == \E t \in TypeIdx : MemoryType_dispose_panics(t)
       IN  /\ panicked' = fatal
           /\ heap_last' = [NoCall EXCEPT !.op = "dispose",
                                          !.result = IF fatal THEN "panic" ELSE "Ok",
                                          !.outstanding = blocks,
                                          !.used_prior = used_now]
    /\ UNCHANGED <<config, types, heaps, arena, dynamic, blocks, mapped, overflow_checks>>

-----------------------------------------------------------------------------
(* MemoryBlock::map and MemoryBlock::unmap, lines 245-261: every flavor     *)
(* hands the call to its own block type.                                    *)

\* The sub-ranges a caller asks for.
Ranges == {r \in (0..ArenaConfig.chunk_size) \X (0..ArenaConfig.chunk_size) : r[1] < r[2]}

\* Block::range of the three block types
Block_range(block) == <<block.offset, block.offset + block.size>>

range_within(range, outer) == outer[1] <= range[1] /\ range[2] <= outer[2]

\* The mapping record of a block: how many mappings are active, and whether
\* one has been released.
mapping_of(block) ==
    IF \E m \in mapped : m.block = block
    THEN CHOOSE m \in mapped : m.block = block
    ELSE [block |-> block, active |-> 0, unmapped |-> FALSE]

\* A map that does not look at the block's range.
Block_map_unbounded(block, range, active) ==
    IF active > 0 THEN "MappingError" ELSE "Ok"

\* A map that does not care about a mapping already active.
Block_map_shared(block, range, active) ==
    IF ~range_within(range, Block_range(block)) THEN "MappingError" ELSE "Ok"

\* Block::map of the three block types: fails if the sub-range exceeds the
\* block's own range or the block is already mapped.
Block_map(block, range, active) ==
    IF active > 0 \/ ~range_within(range, Block_range(block)) THEN "MappingError" ELSE "Ok"

\* MemoryBlock::map, lines 245-254
MemoryBlock_map(block, range) ==
    /\ ~panicked
    /\ heap_last.op = "none"
    /\ block \in blocks
    /\ LET m == mapping_of(block)
           result == Block_map(block, range, m.active)
       IN  /\ mapped' = IF result = "Ok"
                         THEN (mapped \ {m}) \cup {[m EXCEPT !.active = @ + 1]}
                         ELSE mapped
           /\ heap_last' = [NoCall EXCEPT !.op = "map", !.block = block,
                                          !.flavor = block.flavor, !.range = range,
                                          !.result = result,
                                          !.active_before = m.active,
                                          !.unmapped_before = m.unmapped,
                                          !.used_prior = used_now]
    /\ UNCHANGED <<config, types, heaps, arena, dynamic, blocks, overflow_checks, panicked>>

\* MemoryBlock::unmap, lines 256-261
MemoryBlock_unmap(block) ==
    /\ ~panicked
    /\ heap_last.op = "none"
    /\ block \in blocks
    /\ LET m == mapping_of(block)
       IN  /\ m.active > 0
           /\ mapped' = (mapped \ {m}) \cup {[m EXCEPT !.active = 0, !.unmapped = TRUE]}
           /\ heap_last' = [NoCall EXCEPT !.op = "unmap", !.block = block,
                                          !.flavor = block.flavor, !.result = "Ok",
                                          !.active_before = m.active,
                                          !.unmapped_before = m.unmapped,
                                          !.used_prior = used_now]
    /\ UNCHANGED <<config, types, heaps, arena, dynamic, blocks, overflow_checks, panicked>>

\* Heaps::new, lines 35-64: one MemoryType per descriptor, every heap unused.
InitHeaps ==
    /\ config \in ConfigChoices
    /\ \E heap_index \in HeapMaps,
          properties \in [TypeIdx -> PropertyChoices] :
          types = [t \in TypeIdx |-> MemoryType_new(heap_index[t], properties[t], config)]
    /\ heaps = [h \in HeapIdx |-> MemoryHeap_new(HeapSizes[h])]
    /\ arena = [t \in TypeIdx |-> <<>>]
    /\ dynamic = [t \in TypeIdx |-> NoChunks]
    /\ blocks = {}
    /\ mapped = {}
    /\ overflow_checks \in BOOLEAN
    /\ panicked = FALSE
    /\ heap_last = NoCall
    /\ CoreParked

NextHeaps ==
    \/ \E mask \in Masks, usage \in UsageValue, request \in Requests :
          Heaps_allocate(mask, usage, request[1], request[2])
    \/ \E block \in blocks : Heaps_free(block)
    \/ Heaps_dispose
    \/ Heaps_caller_continue

SpecHeaps == InitHeaps /\ [][NextHeaps /\ UNCHANGED core_vars]_vars

\* The heap indices a type descriptor may name: the heaps and one beyond them.
DescriptorHeapIndex == 0..Cardinality(HeapIdx)

heap_index_unchecked(heap_index, len) == TRUE

\* Line 59: assert!(heap_index < heaps.len())
heap_index_in_range(heap_index, len) == heap_index < len

\* Heaps::new, lines 35-64, for arbitrary descriptors: the assert! at line 59
\* panics on a descriptor that names no heap.  After that panic there is no
\* registry; types then keeps what the descriptors asked for.
InitNew ==
    /\ config = [arena |-> TRUE, dynamic |-> TRUE]
    /\ \E heap_index \in [TypeIdx -> DescriptorHeapIndex] :
          LET fatal == \E t \in TypeIdx :
                          ~heap_index_in_range(heap_index[t], Cardinality(HeapIdx))
          IN  /\ types = [t \in TypeIdx |->
                            MemoryType_new(heap_index[t], {"DEVICE_LOCAL", "HOST_VISIBLE"}, config)]
              /\ panicked = fatal
              /\ heap_last = [NoCall EXCEPT !.op = "new",
                                            !.result = IF fatal THEN "panic" ELSE "Ok"]
    /\ heaps = [h \in HeapIdx |-> MemoryHeap_new(HeapSizes[h])]
    /\ arena = [t \in TypeIdx |-> <<>>]
    /\ dynamic = [t \in TypeIdx |-> NoChunks]
    /\ blocks = {}
    /\ mapped = {}
    /\ overflow_checks \in BOOLEAN
    /\ CoreParked

SpecNew == InitNew /\ [][NextHeaps /\ UNCHANGED core_vars]_vars

\* Heaps::new for a device whose two memory types are device-local and
\* host-visible, with both optional sub-allocators configured.
InitBlocks ==
    /\ config = [arena |-> TRUE, dynamic |-> TRUE]
    /\ types = [t \in TypeIdx |->
                  MemoryType_new(t, {"DEVICE_LOCAL", "HOST_VISIBLE"}, config)]
    /\ heaps = [h \in HeapIdx |-> MemoryHeap_new(HeapSizes[h])]
    /\ arena = [t \in TypeIdx |-> <<>>]
    /\ dynamic = [t \in TypeIdx |-> NoChunks]
    /\ blocks = {}
    /\ mapped = {}
    /\ overflow_checks \in BOOLEAN
    /\ panicked = FALSE
    /\ heap_last = NoCall
    /\ CoreParked

NextBlocks ==
    \/ \E mask \in Masks, usage \in UsageValue, request \in Requests :
          Heaps_allocate(mask, usage, request[1], request[2])
    \/ \E block \in blocks : Heaps_free(block)
    \/ Heaps_dispose
    \/ Heaps_caller_continue
    \/ \E block \in blocks, range \in Ranges : MemoryBlock_map(block, range)
    \/ \E block \in blocks : MemoryBlock_unmap(block)

SpecBlocks == InitBlocks /\ [][NextBlocks /\ UNCHANGED core_vars]_vars

-----------------------------------------------------------------------------
(* Claims about the memory registry *)

available_exact(h, used) == heaps[h].size - used[h]

fit_masked_types(call) ==
    {t \in TypeIdx : /\ (call.mask \div (2 ^ t)) % 2 = 1
                     /\ memory_fitness(call.usage, types[t].properties) # NoFitness}

\* C1: after any sequence of allocate and free calls every heap has
\* used <= size, so available() = size - used never underflows.
C1_used_le_size == \A h \in HeapIdx : heaps[h].used <= heaps[h].size

C3_chunk_left_behind ==
    /\ heap_last.flavor = "Arena"
    /\ heap_last.reserved > 0
    /\ heap_last.lines_before > 1

C9_no_suitable_memory ==
    heap_last.op = "allocate" =>
        /\ (heap_last.result = "NoSuitableMemory") <=> (fit_masked_types(heap_last) = {})
        /\ heap_last.result = "NoSuitableMemory" => used_now = heap_last.used_before

\* NoSuitableMemory for a nonzero mask and a request no heap has room for.
C9_witness ==
    /\ heap_last.op = "allocate"
    /\ heap_last.result = "NoSuitableMemory"
    /\ heap_last.mask # 0
    /\ \A h \in HeapIdx :
          available_exact(h, heap_last.used_before) <= heap_last.size + heap_last.align

\* C10: when some masked type has a defined fitness but none of them has a
\* heap with available() > size + align, allocate returns HeapsExhausted and
\* no heap's used changes.
C10_heaps_exhausted ==
    (/\ heap_last.op = "allocate"
     /\ fit_masked_types(heap_last) # {}
     /\ \A t \in fit_masked_types(heap_last) :
            ~(available_exact(types[t].heap_index, heap_last.used_before)
                > heap_last.size + heap_last.align))
    => /\ heap_last.result = "HeapsExhausted"
       /\ used_now = heap_last.used_before

\* The masked, fit types whose heap has room for the request.
capable_types(call) ==
    {t \in fit_masked_types(call) :
        available_exact(types[t].heap_index, call.used_before) > call.size + call.align}

fittest(candidates, usage) ==
    {t \in candidates :
        \A u \in candidates : memory_fitness(usage, types[u].properties)
                                  <= memory_fitness(usage, types[t].properties)}

\* C11: among the masked, fit types with enough heap capacity allocate
\* selects one of maximum fitness, and among several of maximum fitness the
\* first in scan order, the lowest type index.
C11_selects_first_fittest ==
    (heap_last.op = "allocate" /\ heap_last.memory_index # -1) =>
        LET best == fittest(capable_types(heap_last), heap_last.usage)
        IN  /\ heap_last.memory_index \in best
            /\ \A u \in best : heap_last.memory_index <= u

sub_allocator_bytes(flavor, size) ==
    CASE flavor = "Dedicated" -> {size}
      [] flavor = "Arena" -> {k * ArenaConfig.chunk_size : k \in 0..MaxLines}
      [] flavor = "Dynamic" -> {0, DynamicConfig.chunk_size}

\* C12: on a successful allocate the used counter of the selected type's
\* heap grows by exactly the byte count the sub-allocator reserved, which may
\* exceed the requested size; no other heap changes, and the returned block
\* records the selected type's index as its memory_index.
C12_allocate_adds_reserved ==
    (heap_last.op = "allocate" /\ heap_last.result = "Ok") =>
        LET h == types[heap_last.memory_index].heap_index
        IN  /\ heap_last.memory_index \in fit_masked_types(heap_last)
            /\ heap_last.bytes \in sub_allocator_bytes(heap_last.flavor, heap_last.size)
            /\ heaps[h].used = heap_last.used_prior[h] + heap_last.bytes
            /\ \A g \in HeapIdx \ {h} : heaps[g].used = heap_last.used_prior[g]
            /\ heap_last.block.memory_index = heap_last.memory_index
            /\ heap_last.block \in blocks

C12_witness ==
    /\ heap_last.op = "allocate"
    /\ heap_last.result = "Ok"
    /\ heap_last.bytes > heap_last.size
    /\ heap_last.memory_index = 1
    /\ heap_last.used_prior[types[1].heap_index] > 0

\* C13: free finds the memory type by the block's memory_index, hands the
\* block to the sub-allocator of the block's own flavor, and lowers the used
\* counter of that type's heap by exactly the byte count that sub-allocator
\* released; no other heap changes.
C13_free_subtracts_released ==
    (heap_last.op = "free" /\ heap_last.result = "Ok") =>
        LET h == types[heap_last.block.memory_index].heap_index
        IN  /\ heap_last.bytes \in sub_allocator_bytes(heap_last.block.flavor, heap_last.block.size)
            /\ heaps[h].used = heap_last.used_prior[h] - heap_last.bytes
            /\ \A g \in HeapIdx \ {h} : heaps[g].used = heap_last.used_prior[g]

C13_witness ==
    /\ heap_last.op = "free"
    /\ heap_last.result = "Ok"
    /\ heap_last.block.flavor = "Arena"
    /\ heap_last.bytes > 0
    /\ blocks # {}

\* C14: dispose panics whenever a block of any flavor, allocated from any
\* memory type, has not been freed, and completes normally only when no
\* block is outstanding.
C14_dispose_fatal ==
    heap_last.op = "dispose" =>
        ((heap_last.result = "panic") <=> (heap_last.outstanding # {}))

dispatch_table(mt, usage, size) ==
    IF usage \in {"Upload", "Download"} /\ mt.arena /\ size <= ArenaConfig.max_allocation
        THEN "Arena"
    ELSE IF usage \in {"Dynamic", "Data"} /\ mt.dynamic /\ size <= DynamicConfig.max_allocation
        THEN "Dynamic"
    ELSE "Dedicated"

\* C15: MemoryType::alloc dispatches by the first matching rule: Upload or
\* Download with an arena and size <= arena.max_allocation goes to Arena;
\* Dynamic or Data with a dynamic allocator and size <= dynamic.max_allocation
\* goes to Dynamic; every other request goes to Dedicated.
C15_dispatch_table ==
    (heap_last.op = "allocate" /\ heap_last.flavor # "None") =>
        heap_last.flavor =
            dispatch_table(types[heap_last.memory_index], heap_last.usage, heap_last.size)

C15_witness ==
    /\ heap_last.op = "allocate"
    /\ heap_last.result = "Ok"
    /\ heap_last.flavor = "Arena"
    /\ heap_last.size = ArenaConfig.max_allocation
    /\ types[heap_last.memory_index].dynamic

at_or_above_threshold(call) ==
    \/ call.usage \in {"Upload", "Download"} /\ call.size >= ArenaConfig.max_allocation
    \/ call.usage \in {"Dynamic", "Data"} /\ call.size >= DynamicConfig.max_allocation

above_threshold(call) ==
    \/ call.usage \in {"Upload", "Download"} /\ call.size > ArenaConfig.max_allocation
    \/ call.usage \in {"Dynamic", "Data"} /\ call.size > DynamicConfig.max_allocation

\* C16: a request whose size is at or above the arena (Upload, Download) or
\* dynamic (Dynamic, Data) max_allocation is always routed to Dedicated; only
\* requests strictly below go to Arena or Dynamic.
C16_threshold_to_dedicated ==
    (heap_last.op = "allocate" /\ heap_last.flavor # "None" /\ at_or_above_threshold(heap_last))
        => heap_last.flavor = "Dedicated"

\* C16 as amended: a request strictly above the threshold is always routed
\* to Dedicated; a request of exactly max_allocation still goes to the
\* configured Arena or Dynamic allocator.
C16_threshold_amended ==
    (heap_last.op = "allocate" /\ heap_last.flavor # "None") =>
        LET mt == types[heap_last.memory_index]
        IN  /\ above_threshold(heap_last) => heap_last.flavor = "Dedicated"
            /\ (/\ heap_last.size = ArenaConfig.max_allocation
                /\ heap_last.usage \in {"Upload", "Download"}
                /\ mt.arena) => heap_last.flavor = "Arena"
            /\ (/\ heap_last.size = DynamicConfig.max_allocation
                /\ heap_last.usage \in {"Dynamic", "Data"}
                /\ mt.dynamic) => heap_last.flavor = "Dynamic"

C16_witness ==
    /\ heap_last.op = "allocate"
    /\ heap_last.result = "Ok"
    /\ heap_last.flavor = "Dynamic"
    /\ heap_last.usage = "Data"
    /\ heap_last.size = DynamicConfig.max_allocation

\* C17: a memory type has an arena (dynamic) sub-allocator exactly when the
\* Config supplies an arena (dynamic) configuration and the type's properties
\* contain all properties that allocator requires, from construction onward.
C17_sub_allocators_present ==
    \A t \in TypeIdx :
        /\ types[t].arena <=>
              (config.arena /\ ArenaAllocator_properties_required \subseteq types[t].properties)
        /\ types[t].dynamic <=>
              (config.dynamic /\ DynamicAllocator_properties_required \subseteq types[t].properties)

C17_witness ==
    /\ heap_last.op = "free"
    /\ config.arena
    /\ \E t \in TypeIdx : ~types[t].arena
    /\ \E t \in TypeIdx : types[t].arena

\* C18: map with a sub-range not contained in the block's own range fails
\* with MappingError, whatever the block's flavor, and leaves the block
\* unmapped.
C18_map_outside_range ==
    (/\ heap_last.op = "map"
     /\ ~(/\ heap_last.block.offset <= heap_last.range[1]
          /\ heap_last.range[2] <= heap_last.block.offset + heap_last.block.size))
    => /\ heap_last.result = "MappingError"
       /\ mapping_of(heap_last.block).active = heap_last.active_before

\* A range that starts inside a sub-allocated block and ends beyond it.
C18_witness ==
    /\ heap_last.op = "map"
    /\ heap_last.result = "MappingError"
    /\ heap_last.active_before = 0
    /\ heap_last.flavor = "Dynamic"
    /\ heap_last.block.offset > 0
    /\ heap_last.range[1] = heap_last.block.offset
    /\ heap_last.range[2] > heap_last.block.offset + heap_last.block.size

\* C19: a block has at most one active mapping: map on a block that is
\* mapped and not yet unmapped fails with MappingError, and after unmap a map
\* of a valid sub-range succeeds again.
C19_one_active_mapping ==
    /\ \A m \in mapped : m.active <= 1
    /\ heap_last.op = "map" =>
          /\ heap_last.active_before > 0 => heap_last.result = "MappingError"
          /\ (/\ heap_last.active_before = 0
              /\ heap_last.unmapped_before
              /\ heap_last.block.offset <= heap_last.range[1]
              /\ heap_last.range[2] <= heap_last.block.offset + heap_last.block.size)
             => /\ heap_last.result = "Ok"
                /\ mapping_of(heap_last.block).active = 1

C19_witness ==
    /\ heap_last.op = "map"
    /\ heap_last.result = "MappingError"
    /\ heap_last.active_before = 1
    /\ heap_last.unmapped_before
    /\ heap_last.block.offset <= heap_last.range[1]
    /\ heap_last.range[2] <= heap_last.block.offset + heap_last.block.size

\* C29: allocate scans once: when the sub-allocator of the selected type
\* fails with the device's OutOfHostMemory or OutOfDeviceMemory, that error is
\* returned as it is, no other type is tried, no block is returned and no
\* heap's used changes.
C29_single_scan ==
    (heap_last.op = "allocate"
        /\ heap_last.device \in {"OutOfHostMemory", "OutOfDeviceMemory"}) =>
        /\ heap_last.result = heap_last.device
        /\ heap_last.block = NoBlock
        /\ used_now = heap_last.used_prior
        /\ heap_last.memory_index \in fit_masked_types(heap_last)

\* The device refuses while a second masked, fit type has a heap with room.
C29_witness ==
    /\ heap_last.op = "allocate"
    /\ heap_last.result = "OutOfDeviceMemory"
    /\ \E t \in capable_types(heap_last) :
          /\ t # heap_last.memory_index
          /\ types[t].heap_index # types[heap_last.memory_index].heap_index

\* C30: once every block allocated since construction has been freed, in
\* whatever order and whichever sub-allocators served them, every heap's used
\* is 0.
C30_all_freed_used_zero ==
    blocks = {} => \A h \in HeapIdx : heaps[h].used = 0

\* The last block freed releases two arena chunks at once.
C30_witness ==
    /\ heap_last.op = "free"
    /\ blocks = {}
    /\ heap_last.bytes = 2 * ArenaConfig.chunk_size
    /\ \A h \in HeapIdx : heaps[h].used = 0

\* The masked, fit types of maximum fitness, whatever their heaps hold.
top_fitness_types(call) == fittest(fit_masked_types(call), call.usage)

\* C31: the capacity filter comes before the choice by fitness: when no
\* masked type of the highest fitness has a heap with available() > size +
\* align but a masked type of lower fitness has, allocate selects a type whose
\* heap has that room and does not fail with HeapsExhausted.
C31_capacity_before_fitness ==
    (/\ heap_last.op = "allocate"
     /\ capable_types(heap_last) # {}
     /\ top_fitness_types(heap_last) \cap capable_types(heap_last) = {})
    => /\ heap_last.result \notin {"HeapsExhausted", "NoSuitableMemory", "panic"}
       /\ heap_last.memory_index \in fittest(capable_types(heap_last), heap_last.usage)

\* C32: allocate and free change the used counter of at most one heap, the
\* heap of the selected type or of the block's type; every other used counter,
\* every heap size and every type's heap_index and properties stay as they
\* are, and an allocate that fails changes no heap.
C32_one_heap_changes ==
    [][(heap_last' # heap_last /\ heap_last'.op \in {"allocate", "free"}) =>
          LET t == heap_last'.memory_index
              changed == {h \in HeapIdx : heaps'[h].used # heaps[h].used}
          IN  /\ changed \subseteq (IF t = -1 THEN {} ELSE {types[t].heap_index})
              /\ (heap_last'.op = "allocate" /\ heap_last'.result # "Ok") => heaps' = heaps
              /\ heap_last'.op = "free" => t = heap_last'.block.memory_index
              /\ \A h \in HeapIdx : heaps'[h].size = heaps[h].size
              /\ \A u \in TypeIdx : /\ types'[u].heap_index = types[u].heap_index
                                    /\ types'[u].properties = types[u].properties]_vars

\* A free that releases bytes of heap 1 while heap 0 is in use.
C32_witness ==
    /\ heap_last.op = "free"
    /\ heap_last.result = "Ok"
    /\ heap_last.bytes > 0
    /\ types[heap_last.memory_index].heap_index = 1
    /\ heaps[0].used > 0

\* C34: every memory type's heap_index names one of the registry's heaps:
\* Heaps::new panics when a descriptor names a heap index at or beyond the
\* number of heaps, and heap_index never changes afterwards, so allocate and
\* free always find the heap.
C34_heap_index_valid ==
    /\ [](/\ heap_last.op = "new" =>
                /\ (heap_last.result = "panic") <=>
                      (\E t \in TypeIdx : types[t].heap_index \notin DOMAIN heaps)
                /\ panicked <=> (heap_last.result = "panic")
          /\ ~panicked => \A t \in TypeIdx : types[t].heap_index \in DOMAIN heaps
          /\ (heap_last.op \in {"allocate", "free"} /\ heap_last.memory_index # -1) =>
                types[heap_last.memory_index].heap_index \in DOMAIN heaps)
    /\ [][\A t \in TypeIdx : types'[t].heap_index = types[t].heap_index]_vars

\* The second descriptor names the heap just beyond the last one.
C34_witness ==
    /\ heap_last.op = "new"
    /\ heap_last.result = "panic"
    /\ types[0].heap_index \in DOMAIN heaps
    /\ types[1].heap_index = Cardinality(DOMAIN heaps)

\* C35: usage classes never cross strategies: an Upload or Download request
\* is never served by the Dynamic allocator (without an arena, or above the
\* arena's max_allocation, it goes to Dedicated even if a dynamic allocator
\* could take it), and a Dynamic or Data request is never served by the Arena
\* allocator.
C35_no_crossing ==
    (heap_last.op = "allocate" /\ heap_last.flavor # "None") =>
        LET mt == types[heap_last.memory_index]
            staged == heap_last.usage \in {"Upload", "Download"}
        IN  /\ staged => heap_last.flavor \in {"Arena", "Dedicated"}
            /\ (staged /\ (~mt.arena \/ heap_last.size > ArenaConfig.max_allocation))
                  => heap_last.flavor = "Dedicated"
            /\ ~staged => heap_last.flavor \in {"Dynamic", "Dedicated"}
            /\ heap_last.result = "Ok" => heap_last.block.flavor = heap_last.flavor

\* An Upload request the type's dynamic allocator could take, served by Dedicated.
C35_witness ==
    /\ heap_last.op = "allocate"
    /\ heap_last.result = "Ok"
    /\ heap_last.usage = "Upload"
    /\ ~types[heap_last.memory_index].arena
    /\ types[heap_last.memory_index].dynamic
    /\ heap_last.size <= DynamicConfig.max_allocation
    /\ heap_last.flavor = "Dedicated"

has_sub_allocator(block) ==
    /\ block.flavor = "Arena" => types[block.memory_index].arena
    /\ block.flavor = "Dynamic" => types[block.memory_index].dynamic

\* C36: for every outstanding block the memory type named by its
\* memory_index has the sub-allocator of the block's flavor, so free of such a
\* block never fails on a missing sub-allocator.
C36_flavor_has_allocator ==
    /\ \A b \in blocks : has_sub_allocator(b)
    /\ heap_last.op = "free" =>
          /\ has_sub_allocator(heap_last.block)
          /\ ~MemoryType_free_unwrap_panics(heap_last.block.memory_index, heap_last.block)

\* An Arena block freed while a Dynamic block is outstanding, on types of
\* which one has no arena.
C36_witness ==
    /\ heap_last.op = "free"
    /\ heap_last.result = "Ok"
    /\ heap_last.block.flavor = "Arena"
    /\ \E b \in blocks : b.flavor = "Dynamic" /\ ~types[b.memory_index].arena

\* allocate reached memory_type.alloc (line 137)
delegated(call) == call.op = "allocate" /\ call.flavor # "None"

\* C37: allocate never delegates to a type whose heap has less than size
\* bytes available, for all u64 values of size and align, also when size +
\* align exceeds the u64 range.
C37_no_delegation_without_room ==
    delegated(heap_last) =>
        available_exact(types[heap_last.memory_index].heap_index, heap_last.used_before)
            >= heap_last.size

\* C38: every heap's used is the sum of the bytes reserved by successful
\* allocations minus the sum of the bytes released by frees on its types: it
\* is 0 at construction, a successful allocate adds the bytes reserved, a free
\* subtracts the bytes released, which never exceed the heap's used, and no
\* other step changes it.
C38_used_is_ledger ==
    /\ \A h \in HeapIdx : heaps[h].used = 0
    /\ [][LET call == heap_last'
              on(h) == call.memory_index # -1 /\ h = types[call.memory_index].heap_index
          IN  IF heap_last' # heap_last /\ call.op = "allocate" /\ call.result = "Ok"
              THEN \A h \in HeapIdx :
                      heaps'[h].used = heaps[h].used + (IF on(h) THEN call.bytes ELSE 0)
              ELSE IF heap_last' # heap_last /\ call.op = "free"
              THEN /\ call.result = "Ok"
                   /\ \A h \in HeapIdx :
                         /\ on(h) => call.bytes <= heaps[h].used
                         /\ heaps'[h].used = heaps[h].used - (IF on(h) THEN call.bytes ELSE 0)
              ELSE \A h \in HeapIdx : heaps'[h].used = heaps[h].used]_vars

\* A free that releases all its heap holds while the other heap is in use.
C38_witness ==
    /\ heap_last.op = "free"
    /\ heap_last.result = "Ok"
    /\ heap_last.bytes > 0
    /\ heap_last.bytes = heap_last.used_prior[types[heap_last.memory_index].heap_index]
    /\ \E g \in HeapIdx : g # types[heap_last.memory_index].heap_index /\ heaps[g].used > 0

-----------------------------------------------------------------------------
(* The device, as the fence functions see it *)

ArmedFence(raw, queue, e) == [raw |-> raw, state |-> "Armed", queue |-> queue, epoch |-> e]

\* The value of a fence that was moved into a call and not handed back.
DroppedFence(fence) == [fence EXCEPT !.state = "Dropped"]

\* The value of a fence that was moved into a call that reported DeviceLost.
LostFence(fence) == [fence EXCEPT !.state = "Lost"]

\* vkWaitForFences(raws, waitAll, timeout): Success only when all (waitAll) or
\* one (otherwise) of the fences is signalled, Timeout only when not;
\* it may fail for lack of memory, and with DeviceLost once the device is lost.
vk_wait_for_fences(raws, wait_all) ==
    LET done == IF wait_all THEN \A f \in raws : signalled[f]
                ELSE \E f \in raws : signalled[f]
    IN  (IF done THEN {"Success"} ELSE {"Timeout"})
        \cup {"ErrorOutOfHostMemory", "ErrorOutOfDeviceMemory"}
        \cup (IF device_lost THEN {"ErrorDeviceLost"} ELSE {})

\* vkGetFenceStatus(raw)
vk_get_fence_status(raw) ==
    (IF signalled[raw] THEN {"Success"} ELSE {"NotReady"})
    \cup (IF device_lost THEN {"ErrorDeviceLost"} ELSE {})

-----------------------------------------------------------------------------
(* command/fence.rs *)

\* A ReadyFence that belongs to no submission.
ReadyFence_restamped(fence) ==
    [raw |-> fence.raw, state |-> "Ready", queue |-> fence.queue, epoch |-> 0]

\* Lines 54-59 and 76-81: the ReadyFence built from an ArmedFence.
ReadyFence(fence) ==
    [raw |-> fence.raw, state |-> "Ready", queue |-> fence.queue, epoch |-> fence.epoch]

\* A wait that is satisfied by the first signalled fence.
wait_any_argument(mode) == FALSE

\* Line 50: the waitAll argument handed to the device, whatever the caller wants.
wait_all_argument(mode) == TRUE

\* A timeout that hands back the signalled fences as Ready.
wait_for_all_fences_partial(input, vk) ==
    CASE vk = "Success" ->
            [kind |-> "Ready", out |-> [i \in 1..Len(input) |-> ReadyFence(input[i])]]
      [] vk = "Timeout" ->
            [kind |-> "Armed",
             out |-> [i \in 1..Len(input) |->
                        IF signalled[input[i].raw] THEN ReadyFence(input[i]) ELSE input[i]]]
      [] vk = "ErrorOutOfHostMemory" ->
            [kind |-> "OutOfHostMemory", out |-> <<>>]
      [] vk = "ErrorOutOfDeviceMemory" ->
            [kind |-> "OutOfDeviceMemory", out |-> <<>>]
      [] vk = "ErrorDeviceLost" ->
            [kind |-> "DeviceLost", out |-> <<>>]

\* A lost device reported as a timeout.
wait_for_all_fences_lost_as_timeout(input, vk) ==
    CASE vk = "Success" ->
            [kind |-> "Ready", out |-> [i \in 1..Len(input) |-> ReadyFence(input[i])]]
      [] vk \in {"Timeout", "ErrorDeviceLost"} ->
            [kind |-> "Armed", out |-> input]
      [] vk = "ErrorOutOfHostMemory" ->
            [kind |-> "OutOfHostMemory", out |-> <<>>]
      [] vk = "ErrorOutOfDeviceMemory" ->
            [kind |-> "OutOfDeviceMemory", out |-> <<>>]

\* Lines 52-66: [kind, out] for the device's answer.
wait_for_all_fences(input, vk) ==
    CASE vk = "Success" ->
            [kind |-> "Ready", out |-> [i \in 1..Len(input) |-> ReadyFence(input[i])]]
      [] vk = "Timeout" ->
            [kind |-> "Armed", out |-> input]
      [] vk = "ErrorOutOfHostMemory" ->
            [kind |-> "OutOfHostMemory", out |-> <<>>]
      [] vk = "ErrorOutOfDeviceMemory" ->
            [kind |-> "OutOfDeviceMemory", out |-> <<>>]
      [] vk = "ErrorDeviceLost" ->
            [kind |-> "DeviceLost", out |-> <<>>]

\* A poll that forgets the epoch of the fence it finds signalled.
get_fence_status_forgetful(fence, vk) ==
    CASE vk = "Success" -> [kind |-> "Ready", out |-> <<[ReadyFence(fence) EXCEPT !.epoch = 0]>>]
      [] vk = "NotReady" -> [kind |-> "Armed", out |-> <<fence>>]
      [] vk = "ErrorDeviceLost" -> [kind |-> "DeviceLost", out |-> <<>>]

\* Lines 74-86
get_fence_status(fence, vk) ==
    CASE vk = "Success" -> [kind |-> "Ready", out |-> <<ReadyFence(fence)>>]
      [] vk = "NotReady" -> [kind |-> "Armed", out |-> <<fence>>]
      [] vk = "ErrorDeviceLost" -> [kind |-> "DeviceLost", out |-> <<>>]

\* The fences after a call that took `input` and handed back `out`.
fences_after(input, out, kind) ==
    [f \in FenceIds |->
        IF \E i \in 1..Len(out) : out[i].raw = f
            THEN LET i == CHOOSE j \in 1..Len(out) : out[j].raw = f IN out[i]
        ELSE IF \E i \in 1..Len(input) : input[i].raw = f
            THEN IF kind = "DeviceLost" THEN LostFence(fences[f]) ELSE DroppedFence(fences[f])
        ELSE fences[f]]

\* The non-empty sequences of distinct fences.
FenceSeqs == {ids \in UNION {[1..n -> FenceIds] : n \in 1..NumFences} :
                \A i, j \in DOMAIN ids : i # j => ids[i] # ids[j]}

core_idle == alive /\ ~core_panicked /\ core_last.op = "none"

\* wait_for_all_fences, lines 44-67; `mode` is what the caller wants to wait for.
Wait_for_all_fences(ids, mode) ==
    /\ core_idle
    /\ \A i \in DOMAIN ids : fences[ids[i]].state = "Armed"
    /\ LET input == [i \in DOMAIN ids |-> fences[ids[i]]]
           raws  == {ids[i] : i \in DOMAIN ids}
       IN  \E vk \in vk_wait_for_fences(raws, wait_all_argument(mode)) :
            LET r == wait_for_all_fences(input, vk) IN
            /\ fences' = fences_after(input, r.out, r.kind)
            /\ core_last' = [NoCoreCall EXCEPT !.op = "wait_for_all", !.mode = mode,
                                 !.input = input,
                                 !.signalled = {f \in raws : signalled[f]},
                                 !.vk = vk, !.kind = r.kind, !.out = r.out,
                                 !.queries = 1, !.fences_before = fences]
    /\ UNCHANGED <<instance, owner, debug_assertions, lease, alive, tracker, held, epoch, signalled, device_lost,
                   objects, batches, core_panicked>>

\* get_fence_status, lines 73-87
Get_fence_status(raw) ==
    /\ core_idle
    /\ fences[raw].state = "Armed"
    /\ \E vk \in vk_get_fence_status(raw) :
            LET r == get_fence_status(fences[raw], vk) IN
            /\ fences' = fences_after(<<fences[raw]>>, r.out, r.kind)
            /\ core_last' = [NoCoreCall EXCEPT !.op = "get_status",
                                 !.input = <<fences[raw]>>,
                                 !.signalled = {f \in {raw} : signalled[f]},
                                 !.vk = vk, !.kind = r.kind, !.out = r.out,
                                 !.queries = 1, !.fences_before = fences]
    /\ UNCHANGED <<instance, owner, debug_assertions, lease, alive, tracker, held, epoch, signalled, device_lost,
                   objects, batches, core_panicked>>

\* The caller takes the result and goes on.
Core_continue ==
    /\ alive
    /\ ~core_panicked
    /\ core_last.op # "none"
    /\ core_last' = NoCoreCall
    /\ UNCHANGED <<instance, owner, debug_assertions, lease, alive, tracker, held, epoch, fences, signalled, device_lost,
                   objects, batches, core_panicked>>

-----------------------------------------------------------------------------
(* Submission and the device's progress *)

\* Submission: the queue's epoch is incremented and the fence armed with it
\* in one step.  Fences are taken from the pool in order.
submit_epoch_stale(q) == epoch[q]

\* The epoch of the queue's next submission.
submit_epoch(q) == epoch[q] + 1

Queue_submit(q, f) ==
    /\ core_idle
    /\ ~device_lost
    /\ fences[f].state = "Unarmed"
    /\ \A g \in FenceIds : g < f => fences[g].state # "Unarmed"
    /\ epoch[q] < MaxEpoch
    /\ epoch' = [epoch EXCEPT ![q] = @ + 1]
    /\ fences' = [fences EXCEPT ![f] = ArmedFence(f, q, submit_epoch(q))]
    /\ UNCHANGED <<instance, owner, debug_assertions, lease, alive, tracker, held, signalled, device_lost, objects,
                   batches, core_panicked, core_last>>

\* The device completes a submission; a queue completes them in order.
Device_signal(f) ==
    /\ core_idle
    /\ ~device_lost
    /\ fences[f].state \in {"Armed", "Dropped", "Lost"}
    /\ ~signalled[f]
    /\ \A g \in FenceIds :
          (/\ fences[g].state # "Unarmed"
           /\ fences[g].queue = fences[f].queue
           /\ fences[g].epoch < fences[f].epoch) => signalled[g]
    /\ signalled' = [signalled EXCEPT ![f] = TRUE]
    /\ UNCHANGED <<instance, owner, debug_assertions, lease, alive, tracker, held, epoch, fences, device_lost, objects,
                   batches, core_panicked, core_last>>

Device_lose ==
    /\ core_idle
    /\ ~device_lost
    /\ device_lost' = TRUE
    /\ UNCHANGED <<instance, owner, debug_assertions, lease, alive, tracker, held, epoch, fences, signalled, objects,
                   batches, core_panicked, core_last>>

-----------------------------------------------------------------------------
(* The graveyard *)

\* The handle of an object is released: the object enters the terminal.
Release(o) ==
    /\ core_idle
    /\ objects[o].state = "live"
    /\ objects' = [objects EXCEPT ![o] = [@ EXCEPT !.state = "released", !.epochs = epoch]]
    /\ UNCHANGED <<instance, owner, debug_assertions, lease, alive, tracker, held, epoch, fences, signalled, device_lost,
                   batches, core_panicked, core_last>>

terminal == {o \in ObjectIds : objects[o].state = "released"}

\* terminal.drain() collected and pushed to every queue (device.rs 503-506,
\* factory.rs 344-347); push_track stamps the batch with the queue's epoch.
push_track_first_queue == {0}

\* Lines 504-506 / 345-347: every queue of every family.
push_track_queues == QueueIds

sweep ==
    /\ objects' = [o \in ObjectIds |->
                     IF o \in terminal
                     THEN [objects[o] EXCEPT !.state = "stamped", !.epochs = epoch]
                     ELSE objects[o]]
    /\ batches' = Append(batches, [objects |-> terminal, stamped_epoch |-> epoch,
                                   holders |-> push_track_queues, state |-> "pending"])

cleanup_sweeps_always(slot) == TRUE

\* Line 502: if self.tracker.is_some()
cleanup_sweeps(slot) == slot

\* Device::cleanup, device.rs 501-511
Device_cleanup ==
    /\ core_idle
    /\ owner = "Device"
    /\ Len(batches) < MaxBatches
    /\ IF cleanup_sweeps(tracker)
       THEN /\ sweep
            /\ core_last' = [NoCoreCall EXCEPT !.op = "cleanup", !.kind = "swept",
                                               !.slot_before = tracker,
                                               !.lease_before = lease,
                                               !.terminal_before = terminal]
       ELSE /\ core_last' = [NoCoreCall EXCEPT !.op = "cleanup", !.kind = "warn",
                                               !.slot_before = tracker,
                                               !.lease_before = lease,
                                               !.terminal_before = terminal]
            /\ UNCHANGED <<objects, batches>>
    /\ UNCHANGED <<instance, owner, debug_assertions, lease, alive, tracker, held, epoch, fences, signalled, device_lost,
                   core_panicked>>

\* Factory::collect_from_tracker, factory.rs 342-348
Factory_collect_from_tracker ==
    /\ core_idle
    /\ owner = "Factory"
    /\ Len(batches) < MaxBatches
    /\ sweep
    /\ core_last' = [NoCoreCall EXCEPT !.op = "collect_from_tracker", !.kind = "swept",
                                       !.terminal_before = terminal]
    /\ UNCHANGED <<instance, owner, debug_assertions, lease, alive, tracker, held, epoch, fences, signalled, device_lost,
                   core_panicked>>

\* Every submission of queue q at or before epoch e has a Ready fence.
observed_ready(q, e) ==
    \A f \in FenceIds :
        (fences[f].state # "Unarmed" /\ fences[f].queue = q /\ fences[f].epoch <= e)
            => fences[f].state = "Ready"

\* The oldest batch queue q still holds.
oldest_held(q) ==
    CHOOSE i \in 1..Len(batches) :
        /\ q \in batches[i].holders
        /\ \A j \in 1..(i - 1) : q \notin batches[j].holders

every_holder(batch, q) == TRUE

\* The queue is the last one holding the batch.
last_holder(batch, q) == batch.holders = {q}

\* A queue lets go of its oldest batch once its fences prove the stamped epoch
\* complete; the last queue to let go destroys the objects.
Queue_reclaim(q) ==
    /\ core_idle
    /\ \E i \in 1..Len(batches) : q \in batches[i].holders
    /\ LET i == oldest_held(q)
           last == last_holder(batches[i], q)
       IN  /\ observed_ready(q, batches[i].stamped_epoch[q])
           /\ batches' = [batches EXCEPT ![i].holders = @ \ {q},
                                         ![i].state = IF last THEN "destroyed" ELSE @]
           /\ objects' = [o \in ObjectIds |->
                            IF last /\ o \in batches[i].objects
                            THEN [objects[o] EXCEPT !.state = "destroyed",
                                                    !.destroys = @ + 1]
                            ELSE objects[o]]
    /\ UNCHANGED <<instance, owner, debug_assertions, lease, alive, tracker, held, epoch, fences, signalled, device_lost,
                   core_panicked, core_last>>

-----------------------------------------------------------------------------
(* The tracker lease, device.rs 482-495 *)

slot_after_take_kept(slot) == slot

\* Option::take leaves None in the slot.
slot_after_take(slot) == FALSE

\* Device::take_tracker: self.tracker.take()
Device_take_tracker ==
    /\ core_idle
    /\ owner = "Device"
    /\ tracker' = slot_after_take(tracker)
    /\ held' = IF tracker THEN held + 1 ELSE held
    /\ lease' = IF tracker THEN "taken" ELSE lease
    /\ core_last' = [NoCoreCall EXCEPT !.op = "take_tracker",
                                       !.kind = IF tracker THEN "Some" ELSE "None",
                                       !.slot_before = tracker, !.lease_before = lease,
                                       !.held_before = held]
    /\ UNCHANGED <<instance, owner, debug_assertions, alive, epoch, fences, signalled, device_lost,
                   objects, batches, core_panicked>>

\* DeviceTracker derives Clone: a caller holding the tracker can copy it.
DeviceTracker_clone ==
    /\ core_idle
    /\ owner = "Device"
    /\ held > 0
    /\ held < MaxHeld
    /\ held' = held + 1
    /\ core_last' = [NoCoreCall EXCEPT !.op = "clone", !.kind = "cloned",
                                       !.slot_before = tracker, !.lease_before = lease,
                                       !.held_before = held]
    /\ UNCHANGED <<instance, owner, debug_assertions, lease, alive, tracker, epoch, fences, signalled,
                   device_lost, objects, batches, core_panicked>>

\* Device::return_tracker, lines 491-495: the debug_assert! stops a return
\* into an occupied slot only in a build with debug assertions; otherwise the
\* tracker in the slot is overwritten.
Device_return_tracker ==
    /\ core_idle
    /\ owner = "Device"
    /\ held > 0
    /\ held' = held - 1
    /\ IF tracker /\ debug_assertions
       THEN /\ core_panicked' = TRUE
            /\ core_last' = [NoCoreCall EXCEPT !.op = "return_tracker", !.kind = "panic",
                                               !.slot_before = tracker,
                                               !.lease_before = lease, !.held_before = held]
            /\ UNCHANGED <<tracker, lease>>
       ELSE /\ tracker' = TRUE
            /\ lease' = "free"
            /\ core_last' = [NoCoreCall EXCEPT !.op = "return_tracker",
                                 !.kind = IF tracker THEN "overwritten" ELSE "returned",
                                 !.slot_before = tracker,
                                 !.lease_before = lease, !.held_before = held]
            /\ UNCHANGED core_panicked
    /\ UNCHANGED <<instance, owner, debug_assertions, alive, epoch, fences, signalled, device_lost,
                   objects, batches>>

-----------------------------------------------------------------------------
(* Teardown *)

\* families.clear(): the queues go, and with them the batches they hold.
families_clear ==
    [i \in 1..Len(batches) |->
        IF batches[i].state = "pending"
        THEN [batches[i] EXCEPT !.holders = {}, !.state = "discarded"]
        ELSE batches[i]]

expect_tracker_lenient(slot) == "disposed"

\* Line 526: self.tracker.take().expect("Tracker must be returned")
expect_tracker(slot) == IF slot THEN "disposed" ELSE "panic"

\* An Instance handle goes: the Arc's count drops, and the last one runs
\* InnerInstance::drop, which destroys the instance (device.rs 178-184).
Instance_after_drop(inst) ==
    [holders |-> inst.holders - 1,
     destroys |-> inst.destroys + (IF inst.holders = 1 THEN 1 ELSE 0)]

\* Instance derives Clone (device.rs 187-190).
Instance_clone ==
    /\ ~core_panicked
    /\ owner = "Device"
    /\ instance.holders > 0
    /\ instance.holders < MaxHolders
    /\ instance' = [instance EXCEPT !.holders = @ + 1]
    /\ UNCHANGED <<owner, debug_assertions, lease, alive, tracker, held, epoch, fences,
                   signalled, device_lost, objects, batches, core_panicked, core_last>>

\* A caller drops an Instance handle of its own.
Instance_drop ==
    /\ ~core_panicked
    /\ owner = "Device"
    /\ instance.holders > (IF alive THEN 1 ELSE 0)
    /\ instance' = Instance_after_drop(instance)
    /\ UNCHANGED <<owner, debug_assertions, lease, alive, tracker, held, epoch, fences,
                   signalled, device_lost, objects, batches, core_panicked, core_last>>

\* impl Drop for Device, device.rs 514-529: line 522 destroys the instance,
\* and the Device's own Instance handle is dropped with its fields.
Drop_Device ==
    /\ core_idle
    /\ owner = "Device"
    /\ instance' = Instance_after_drop([instance EXCEPT !.destroys = @ + 1])
    /\ batches' = families_clear
    /\ alive' = FALSE
    /\ tracker' = FALSE
    /\ core_panicked' = (expect_tracker(tracker) = "panic")
    /\ core_last' = [NoCoreCall EXCEPT !.op = "drop", !.kind = expect_tracker(tracker),
                                       !.slot_before = tracker, !.lease_before = lease,
                                       !.held_before = held]
    /\ UNCHANGED <<owner, debug_assertions, lease, held, epoch, fences, signalled, device_lost, objects>>

\* impl Drop for Factory, factory.rs 351-366
Drop_Factory ==
    /\ core_idle
    /\ owner = "Factory"
    /\ instance' = [holders |-> 0, destroys |-> instance.destroys + 1]
    /\ batches' = families_clear
    /\ objects' = [o \in ObjectIds |->
                     IF o \in terminal
                     THEN [objects[o] EXCEPT !.state = "destroyed", !.destroys = @ + 1]
                     ELSE objects[o]]
    /\ alive' = FALSE
    /\ core_last' = [NoCoreCall EXCEPT !.op = "drop", !.kind = "destroyed"]
    /\ UNCHANGED <<owner, debug_assertions, lease, tracker, held, epoch, fences, signalled, device_lost,
                   core_panicked>>

-----------------------------------------------------------------------------

\* The memory registry while the core is explored.
HeapsParked ==
    /\ config = [arena |-> FALSE, dynamic |-> FALSE]
    /\ types = [t \in TypeIdx |-> MemoryType_new(0, {"DEVICE_LOCAL"}, config)]
    /\ heaps = [h \in HeapIdx |-> MemoryHeap_new(HeapSizes[h])]
    /\ arena = [t \in TypeIdx |-> <<>>]
    /\ dynamic = [t \in TypeIdx |-> NoChunks]
    /\ blocks = {}
    /\ mapped = {}
    /\ overflow_checks = TRUE
    /\ panicked = FALSE
    /\ heap_last = NoCall

\* Device::create (device.rs 432-441) or FactoryBuilder::with_device (factory.rs 270-283)
InitCore ==
    /\ owner \in {"Device", "Factory"}
    /\ instance = instance_at_create(owner)
    /\ debug_assertions = TRUE
    /\ lease = "free"
    /\ alive = TRUE
    /\ tracker = TRUE
    /\ held = 0
    /\ epoch = [q \in QueueIds |-> 0]
    /\ fences = [f \in FenceIds |-> UnarmedFence(f)]
    /\ signalled = [f \in FenceIds |-> FALSE]
    /\ device_lost = FALSE
    /\ objects = [o \in ObjectIds |->
                    [state |-> "live", epochs |-> [q \in QueueIds |-> 0], destroys |-> 0]]
    /\ batches = <<>>
    /\ core_panicked = FALSE
    /\ core_last = NoCoreCall
    /\ HeapsParked

NextCore ==
    \/ \E ids \in FenceSeqs, mode \in WaitFor : Wait_for_all_fences(ids, mode)
    \/ \E f \in FenceIds : Get_fence_status(f)
    \/ Core_continue
    \/ \E q \in QueueIds, f \in FenceIds : Queue_submit(q, f)
    \/ \E f \in FenceIds : Device_signal(f)
    \/ Device_lose
    \/ \E o \in ObjectIds : Release(o)
    \/ Device_cleanup
    \/ Factory_collect_from_tracker
    \/ \E q \in QueueIds : Queue_reclaim(q)
    \/ Device_take_tracker
    \/ Device_return_tracker
    \/ Drop_Device
    \/ Drop_Factory

SpecCore == InitCore /\ [][NextCore /\ UNCHANGED heap_vars]_vars

\* Device::create in either build, for the callers that copy the tracker.
InitLease ==
    /\ owner = "Device"
    /\ instance = instance_at_create(owner)
    /\ debug_assertions \in BOOLEAN
    /\ lease = "free"
    /\ alive = TRUE
    /\ tracker = TRUE
    /\ held = 0
    /\ epoch = [q \in QueueIds |-> 0]
    /\ fences = [f \in FenceIds |-> UnarmedFence(f)]
    /\ signalled = [f \in FenceIds |-> FALSE]
    /\ device_lost = FALSE
    /\ objects = [o \in ObjectIds |->
                    [state |-> "live", epochs |-> [q \in QueueIds |-> 0], destroys |-> 0]]
    /\ batches = <<>>
    /\ core_panicked = FALSE
    /\ core_last = NoCoreCall
    /\ HeapsParked

NextLease ==
    \/ Device_take_tracker
    \/ DeviceTracker_clone
    \/ Device_return_tracker
    \/ Core_continue
    \/ \E q \in QueueIds, f \in FenceIds : Queue_submit(q, f)
    \/ \E o \in ObjectIds : Release(o)
    \/ Device_cleanup
    \/ \E q \in QueueIds : Queue_reclaim(q)
    \/ Drop_Device

SpecLease == InitLease /\ [][NextLease /\ UNCHANGED heap_vars]_vars

\* A Device and the Instance handles around it.
NextInstance ==
    \/ Instance_clone
    \/ Instance_drop
    \/ Drop_Device
    \/ Core_continue
    \/ Device_take_tracker
    \/ Device_return_tracker
    \/ \E q \in QueueIds, f \in FenceIds : Queue_submit(q, f)
    \/ \E o \in ObjectIds : Release(o)
    \/ Device_cleanup
    \/ \E q \in QueueIds : Queue_reclaim(q)

SpecInstance == InitLease /\ [][NextInstance /\ UNCHANGED heap_vars]_vars

-----------------------------------------------------------------------------
(* Claims about fences and the graveyard *)

input_raws(call) == {call.input[i].raw : i \in 1..Len(call.input)}

same_fence_ready(armed, ready) ==
    /\ ready.state = "Ready"
    /\ ready.raw = armed.raw
    /\ ready.queue = armed.queue
    /\ ready.epoch = armed.epoch

\* C2: an object released into the graveyard is destroyed only after, for
\* every queue, every submission at or before the epoch recorded for the object
\* on that queue has been observed Ready; no path, teardown included, destroys
\* an object while such a submission is not yet Ready.
C2_destroyed_after_ready ==
    \A o \in ObjectIds :
        objects[o].state = "destroyed" =>
            \A q \in QueueIds : observed_ready(q, objects[o].epochs[q])

\* C4: with All semantics wait_for_all returns Ready fences only when every
\* input fence is signalled; the result is then one Ready fence per input
\* fence, in input order, each with the raw handle, queue and epoch of its
\* Armed input, and a result is never a mix of Ready and Armed fences.
C4_wait_for_all_ready ==
    (core_last.op = "wait_for_all" /\ core_last.mode = "All") =>
        /\ core_last.kind = "Ready" =>
              /\ core_last.signalled = input_raws(core_last)
              /\ Len(core_last.out) = Len(core_last.input)
              /\ \A i \in 1..Len(core_last.input) :
                    /\ core_last.input[i].state = "Armed"
                    /\ same_fence_ready(core_last.input[i], core_last.out[i])
                    /\ fences[core_last.input[i].raw] = core_last.out[i]
        /\ \A i, j \in 1..Len(core_last.out) :
              core_last.out[i].state = core_last.out[j].state

C4_witness ==
    /\ core_last.op = "wait_for_all"
    /\ core_last.mode = "All"
    /\ core_last.kind = "Ready"
    /\ Len(core_last.input) = 2
    /\ core_last.input[1].raw > core_last.input[2].raw

\* C5: when wait_for_all times out, also with some but not all fences
\* signalled, it returns the original Armed fences unmodified: same fences,
\* same order, same queue and epoch, none converted to Ready.
C5_timeout_returns_input ==
    (core_last.op = "wait_for_all" /\ core_last.vk = "Timeout") =>
        /\ core_last.kind = "Armed"
        /\ core_last.out = core_last.input
        /\ \A i \in 1..Len(core_last.out) : core_last.out[i].state = "Armed"
        /\ fences = core_last.fences_before

C5_witness ==
    /\ core_last.op = "wait_for_all"
    /\ core_last.vk = "Timeout"
    /\ Len(core_last.input) = 2
    /\ core_last.signalled # {}

\* C6: get_status on an Armed fence returns a Ready fence with the same raw
\* handle, queue and epoch when the device reports it signalled and the very
\* same Armed fence when the device reports not-ready; it asks the device once
\* and changes no other fence.
C6_get_status ==
    core_last.op = "get_status" =>
        LET fence == core_last.input[1] IN
        /\ core_last.vk = "Success" =>
              /\ core_last.kind = "Ready"
              /\ Len(core_last.out) = 1
              /\ same_fence_ready(fence, core_last.out[1])
              /\ fences[fence.raw] = core_last.out[1]
        /\ core_last.vk = "NotReady" =>
              /\ core_last.kind = "Armed"
              /\ core_last.out = <<fence>>
              /\ fences[fence.raw] = fence
        /\ core_last.queries = 1
        /\ \A f \in FenceIds \ {fence.raw} : fences[f] = core_last.fences_before[f]

C6_witness ==
    /\ core_last.op = "get_status"
    /\ core_last.vk = "Success"
    /\ core_last.input[1].epoch = 2
    /\ \E f \in FenceIds : fences[f].state = "Armed"

\* C7: when the device reports device-lost, wait_for_all and get_status
\* return the DeviceLost error, not the timeout or not-ready outcome: no Ready
\* and no Armed fence is returned, and the device was asked exactly once.
C7_device_lost ==
    (core_last.op \in {"wait_for_all", "get_status"} /\ core_last.vk = "ErrorDeviceLost") =>
        /\ core_last.kind = "DeviceLost"
        /\ core_last.out = <<>>
        /\ core_last.queries = 1
        /\ \A f \in input_raws(core_last) : fences[f].state \notin {"Armed", "Ready"}

C7_witness ==
    /\ core_last.op = "wait_for_all"
    /\ core_last.vk = "ErrorDeviceLost"
    /\ Len(core_last.input) = 2
    /\ core_last.signalled # {}

\* C8: wait_for_all in mode Any succeeds as soon as at least one of the input
\* fences is signalled, even if the others are not: short of a device error it
\* returns Ready.
C8_any_succeeds ==
    (/\ core_last.op = "wait_for_all"
     /\ core_last.mode = "Any"
     /\ core_last.signalled # {}
     /\ core_last.vk \in {"Success", "Timeout"}) => core_last.kind = "Ready"

\* C20: a sweep by Device::cleanup is performed only while the tracker lease
\* is held (taken and not yet returned); without the lease cleanup reports a
\* usage error and sweeps nothing.
C20_sweep_needs_lease ==
    core_last.op = "cleanup" =>
        /\ core_last.kind = "swept" => (~tracker /\ held > 0)
        /\ (tracker /\ held = 0) => core_last.kind = "warn"

\* C21: between a take_tracker that gave the tracker and the next
\* return_tracker every further take_tracker gives None; after return_tracker
\* the next take_tracker gives the tracker again.
C21_take_while_leased ==
    core_last.op = "take_tracker" =>
        /\ core_last.lease_before = "taken" => core_last.kind = "None"
        /\ core_last.lease_before = "free" => core_last.kind = "Some"

\* A take that succeeds again after a return, a copy of the tracker still out.
C21_witness ==
    /\ core_last.op = "take_tracker"
    /\ core_last.kind = "Some"
    /\ core_last.held_before = 1

\* C22: exactly one DeviceTracker exists per Device, in the slot or in one
\* caller's hands, whatever is done with a held tracker, and return_tracker
\* into an occupied slot is detected instead of overwriting the tracker there.
C22_tracker_unique ==
    /\ (alive /\ ~core_panicked) => (IF tracker THEN 1 ELSE 0) + held = 1
    /\ (core_last.op = "return_tracker" /\ core_last.slot_before) => core_last.kind = "panic"

\* C23: dropping a Device whose tracker is taken and not returned panics
\* ('Tracker must be returned'); a Device with the tracker in its slot drops
\* without that panic.
C23_drop_without_tracker ==
    (core_last.op = "drop" /\ owner = "Device") =>
        /\ (core_last.kind = "panic") <=> ~core_last.slot_before
        /\ core_last.lease_before = "taken" => core_last.kind = "panic"
        /\ core_panicked <=> (core_last.kind = "panic")

C23_witness ==
    /\ core_last.op = "drop"
    /\ owner = "Device"
    /\ core_last.kind = "panic"
    /\ core_last.held_before = MaxHeld

C26_fence_progress ==
    [][\A f \in FenceIds :
          /\ fences[f].state = "Ready" => fences'[f] = fences[f]
          /\ fences[f].state = "Armed" => fences'[f].state # "Unarmed"
          /\ (fences'[f].state = "Ready" /\ fences[f].state # "Ready") =>
                /\ fences[f].state = "Armed"
                /\ signalled[f]
                /\ fences'[f].raw = fences[f].raw
                /\ fences'[f].queue = fences[f].queue
                /\ fences'[f].epoch = fences[f].epoch
                /\ core_last'.op \in {"wait_for_all", "get_status"}]_vars

C26_witness ==
    /\ core_last.op = "wait_for_all"
    /\ \E f \in FenceIds : fences[f].state = "Ready" /\ fences[f].epoch = MaxEpoch
    /\ \E f \in FenceIds : fences[f].state = "Ready" /\ fences[f].epoch = 1

\* C27: DeviceLost is absorbing: once a fence operation has reported
\* DeviceLost, no later operation yields a Ready fence, and no batch stamped
\* with a submission is destroyed.
C27_device_lost_absorbing ==
    [][(\E f \in FenceIds : fences[f].state = "Lost") =>
          /\ \A g \in FenceIds : fences'[g].state = "Ready" => fences[g].state = "Ready"
          /\ \A i \in 1..Len(batches) :
                (/\ batches'[i].state = "destroyed"
                 /\ \E q \in QueueIds : batches[i].stamped_epoch[q] > 0)
                    => batches[i].state = "destroyed"]_vars

submitted(f) == fences[f].state # "Unarmed"

\* C28: per queue the epochs of armed fences strictly increase in submission
\* order, and submission is one step: every epoch a queue has reached belongs
\* to a fence that is no longer Unarmed, and no fence carries an epoch its
\* queue has not reached.
C28_epochs_in_step ==
    /\ \A f \in FenceIds : submitted(f) =>
          (1 <= fences[f].epoch /\ fences[f].epoch <= epoch[fences[f].queue])
    /\ \A q \in QueueIds : \A e \in 1..epoch[q] :
          \E f \in FenceIds : submitted(f) /\ fences[f].queue = q /\ fences[f].epoch = e
    /\ \A f, g \in FenceIds :
          (submitted(f) /\ submitted(g) /\ f < g /\ fences[f].queue = fences[g].queue)
              => fences[f].epoch < fences[g].epoch

C28_witness ==
    /\ epoch[1] = MaxEpoch
    /\ \A f \in FenceIds : submitted(f) /\ fences[f].queue = 1
    /\ fences[1].state = "Ready"

\* C33: Device::cleanup sweeps only while the DeviceTracker is in the
\* device's slot, not taken since it was last returned; while the tracker is
\* taken cleanup drains nothing from the graveyard, hands nothing to any queue
\* and only logs a warning.
C33_cleanup_needs_tracker ==
    [][(core_last' # core_last /\ core_last'.op = "cleanup") =>
          /\ (tracker <=> lease = "free")
          /\ IF tracker
             THEN /\ core_last'.kind = "swept"
                  /\ Len(batches') = Len(batches) + 1
                  /\ batches'[Len(batches')].objects = terminal
                  /\ batches'[Len(batches')].holders = QueueIds
             ELSE /\ core_last'.kind = "warn"
                  /\ objects' = objects
                  /\ batches' = batches
          /\ tracker' = tracker
          /\ ~core_panicked']_vars

\* A cleanup that only warns although an object waits in the graveyard.
C33_witness ==
    /\ core_last.op = "cleanup"
    /\ core_last.kind = "warn"
    /\ core_last.terminal_before # {}
    /\ terminal = core_last.terminal_before
    /\ ~tracker

\* C39: every object released into the graveyard is destroyed in the end,
\* by the queues or at the latest when the owning Device or Factory is dropped:
\* after the drop no released object is left undestroyed.
C39_teardown_destroys_released ==
    ~alive => \A o \in ObjectIds : objects[o].state \notin {"released", "stamped"}

\* C40: the shared instance is destroyed exactly once and only after its
\* last holder is gone: dropping a Device does not destroy it while another
\* Instance handle is alive, and it is never destroyed both by the Device's
\* drop and by InnerInstance's drop.
C40_instance_destroyed_once ==
    /\ instance.destroys <= 1
    /\ instance.destroys > 0 => instance.holders = 0
    /\ instance.holders = 0 => instance.destroys = 1

====
